---- MODULE Spec2Model ----
(***************************************************************************)
(* A model of bot.py: the poll loop monitor_channels (one thread), the     *)
(* YouTubeMonitor and TelegramNotifier helpers it calls, and the health    *)
(* endpoint served by the main thread.                                     *)
(*                                                                         *)
(* The poll loop is cut into steps at its external calls (search, channel  *)
(* metadata, activities, message delivery, sleep); each step is one        *)
(* action and the outcome of the external call is its input.  Python       *)
(* strings are TLA+ strings and f-strings are concatenations with \o.      *)
(***************************************************************************)
EXTENDS Integers, Sequences, FiniteSets, TLC

(***************************************************************************)
(* Bounds of the model.                                                    *)
(***************************************************************************)
\* longest activities response the API returns in the model (maxResults=10 in the code)
MaxItems == 2
\* notifications recorded per dedup key before the delivery step is disabled
MaxNotifications == 2

(***************************************************************************)
(* Values.                                                                 *)
(***************************************************************************)
\* Python's None (a missing dictionary entry read with .get)
None == "<None>"

\* bot.py:129-133
channels_to_monitor == <<"@MrBeast", "@wylsacom", "@HolaSoyGerman">>

\* channel.startswith('@'), bot.py:139
IsHandle(channel) == channel \in {"@MrBeast", "@wylsacom", "@HolaSoyGerman"}

\* channel identifiers the search call can return; one contains the '_' separator
ChannelIds == {"UCa", "UCa_b"}

\* publishedAt values: one ISO-8601 instant and one that datetime.fromisoformat rejects
GoodTime == "2024-01-01T12:00:00Z"
BadTime == "yesterday"

\* channel titles, and the codes langdetect.detect returns when it does not
\* raise (a code without a template set; a detection that raises gives 'en')
Titles == {"Chan"}
DetectedLangs == {"de"}

\* the activity items of an API response: snippet.type, snippet.title,
\* snippet.publishedAt, contentDetails.upload.videoId and
\* contentDetails.liveBroadcast.activeLiveChatId (None when absent).  The
\* contentDetails object is the one of the item's type.
Item(type, time, videoId, chatId) ==
    [type |-> type, title |-> "Title", publishedAt |-> time,
     videoId |-> videoId, activeLiveChatId |-> chatId]

Items ==
    { Item("upload", GoodTime, "b_v", None),
      Item("upload", GoodTime, None, None),
      Item("upload", BadTime, "v", None),
      Item("live", GoodTime, None, "v"),
      Item("like", GoodTime, None, None) }

RECURSIVE SeqsUpTo(_, _)
SeqsUpTo(S, n) ==
    IF n = 0 THEN {<<>>}
    ELSE LET shorter == SeqsUpTo(S, n - 1)
         IN  shorter \cup { Append(s, x) : s \in shorter, x \in S }

\* the responses of activities().list(...).execute()
Responses == SeqsUpTo(Items, MaxItems)

(***************************************************************************)
(* State.                                                                  *)
(***************************************************************************)
VARIABLES
    pc,               \* position of the poll thread in monitor_channels
    i,                \* index of `channel` in channels_to_monitor (the for loop)
    channel_id,       \* local of monitor_channels
    channel_info,     \* local of monitor_channels
    activities,       \* the activities the inner for loop has yet to visit
    message,          \* local of monitor_channels: the formatted message
    channel_cache,    \* YouTubeMonitor.channel_cache
    last_activities,  \* the dedup tracker of monitor_channels
    request,          \* the last request the health server received
    reply,            \* the health server's answer to it
    notifications,    \* history: dedup key -> the notifications delivered for it
    response,         \* history: the API response get_activities just filtered
    last,             \* history: the external call of the latest poll step
    cycle             \* history of the current poll cycle

vars == <<pc, i, channel_id, channel_info, activities, message,
          channel_cache, last_activities, request, reply,
          notifications, response, last, cycle>>

locals == <<channel_id, channel_info, activities, message>>
health == <<request, reply>>

(***************************************************************************)
(* Pure functions.                                                         *)
(***************************************************************************)
\* how an f-string renders a value: None becomes the text "None"
PyStr(x) == IF x = None THEN "None" ELSE x

\* Python's `a or b` on strings: a unless it is None or empty
PyOr(a, b) == IF a = None \/ a = "" THEN b ELSE a

\* faulty variant: the key leaves out the channel identifier
KeyWithoutChannel(cid, vid) == PyStr(vid)

\* activity_key = f"{channel_id}_{activity['video_id']}"
ActivityKey(cid, vid) == cid \o "_" \o PyStr(vid)

\* faulty variant: no kind is filtered out
RetainsEveryKind(type) == TRUE

\* the kinds get_activities keeps
IsRetained(type) == type \in {"upload", "live"}

\* the dictionary get_activities appends for a retained item
Activity(item) ==
    [type |-> item.type, title |-> item.title, time |-> item.publishedAt,
     video_id |-> PyOr(item.videoId, item.activeLiveChatId)]

\* the loop of get_activities over response['items']
RECURSIVE FilterItems(_)
FilterItems(items) ==
    IF items = <<>> THEN <<>>
    ELSE IF IsRetained(Head(items).type)
         THEN <<Activity(Head(items))>> \o FilterItems(Tail(items))
         ELSE FilterItems(Tail(items))

\* what request.execute() did in get_activities: it raised, or returned items
Raised == [raised |-> TRUE, items |-> <<>>]
Returned(items) == [raised |-> FALSE, items |-> items]

\* get_activities: the try block around execute() and the loop, and the return
get_activities(result) ==
    IF result.raised THEN <<>> ELSE FilterItems(result.items)

\* detect_language: `detected` is what langdetect.detect did, "raise" or a code
detect_language(detected) == IF detected = "raise" THEN "en" ELSE detected

\* the value get_channel_info returns without caching when the lookup has no items
UnknownChannel == [title |-> "Unknown Channel", lang |-> "en"]

\* the languages of LANGUAGE_TEMPLATES and the kinds of each template set
TemplateLangs == {"en", "es", "ru"}
TemplateKinds == {"upload", "live", "default"}

\* faulty variant: LANGUAGE_TEMPLATES[lang], no default
TemplateSetNoFallback(lang) == lang

\* LANGUAGE_TEMPLATES.get(lang, LANGUAGE_TEMPLATES['en']), by the key of the set
TemplateSet(lang) == IF lang \in TemplateLangs THEN lang ELSE "en"

\* templates.get(activity['type'], templates['default']), by the key of the template
TemplateKind(type) == IF type \in {"upload", "live"} THEN type ELSE "default"

\* the 'live' templates have no {time} placeholder
HasTimePlaceholder(kind) == kind # "live"

\* datetime.fromisoformat(time.replace('Z', '+00:00')) raises ValueError
TimeRaises(time) == time # GoodTime

\* activity_time.strftime('%Y-%m-%d %H:%M')
FormatTime(time) == IF time = GoodTime THEN "2024-01-01 12:00" ELSE None

\* faulty variant: the short-link form for every kind
UrlShortLinkOnly(a) == "https://youtu.be/" \o PyStr(a.video_id)

\* the url of format_message
Url(a) ==
    IF a.type = "upload"
    THEN "https://youtu.be/" \o PyStr(a.video_id)
    ELSE "https://youtube.com/watch?v=" \o PyStr(a.video_id)

\* format_message: the chosen template and the values substituted into it
format_message(a, info) ==
    [template |-> <<TemplateSet(info.lang), TemplateKind(a.type)>>,
     channel |-> info.title,
     title |-> a.title,
     time |-> IF HasTimePlaceholder(TemplateKind(a.type))
              THEN FormatTime(a.time) ELSE None,
     url |-> Url(a)]

(***************************************************************************)
(* The health endpoint.                                                    *)
(***************************************************************************)
Methods == {"GET", "HEAD", "POST"}
Paths == {"/", "/health"}

\* faulty variant: only the root path is served
do_GET_RootOnly(path) ==
    IF path = "/" THEN [status |-> 200, body |-> "YT Tracker Active"]
    ELSE [status |-> 404, body |-> "Not Found"]

\* HealthHandler.do_GET
do_GET(path) == [status |-> 200, body |-> "YT Tracker Active"]

\* BaseHTTPRequestHandler calls do_<METHOD> when the handler class defines it and
\* answers 501 otherwise (the error page is not sent for HEAD); HealthHandler
\* defines do_GET only
HealthHandler(method, path) ==
    IF method = "GET" THEN do_GET(path)
    ELSE [status |-> 501,
          body |-> IF method = "HEAD" THEN "" ELSE "Unsupported method"]

(***************************************************************************)
(* Initial state: the poll thread is about to run monitor_channels.        *)
(***************************************************************************)
NoInfo == [title |-> None, lang |-> None]
NoMessage == [template |-> <<>>, channel |-> None, title |-> None,
              time |-> None, url |-> None]
NoRequest == [method |-> None, path |-> None]
NoReply == [status |-> 0, body |-> ""]
NoResponse == [valid |-> FALSE, items |-> <<>>]
NoCall == [call |-> "none", result |-> "none", dropped |-> 0]
NoCycle == [visited |-> {}, fresh |-> FALSE, sent |-> FALSE, changed |-> FALSE,
            expected |-> 0, count |-> 0]

Init ==
    /\ pc = "start"
    /\ i = 1
    /\ channel_id = None
    /\ channel_info = NoInfo
    /\ activities = <<>>
    /\ message = NoMessage
    /\ channel_cache = <<>>
    /\ last_activities = <<>>
    /\ request = NoRequest
    /\ reply = NoReply
    /\ notifications = <<>>
    /\ response = NoResponse
    /\ last = NoCall
    /\ cycle = NoCycle

(***************************************************************************)
(* The poll loop.                                                          *)
(***************************************************************************)
channel == channels_to_monitor[i]

\* history: the external call the step made, how it ended, and the number of
\* fetched activities after the current one that an exception in the inner
\* for loop left unprocessed
Called(call, result) ==
    last' = [call |-> call, result |-> result,
             dropped |-> IF result = "raise" /\ pc \in {"activity", "send"}
                         THEN Len(activities) - 1 ELSE 0]

\* the dedup keys of the activities of a list that are not in the tracker
NewKeys(list) ==
    { ActivityKey(channel_id, list[n].video_id) : n \in 1..Len(list) }
        \ DOMAIN last_activities

\* history of the cycle: the channel was visited, an activity with a key that
\* is not in the tracker was fetched, a notification was delivered, and
\* whether the step modified the tracker; of the channel being processed: the
\* number of distinct keys of the fetched activities that were not in the
\* tracker at the fetch, and the number of notifications delivered since
Log(visit, fresh, sent) ==
    cycle' = [visited |-> IF visit THEN cycle.visited \cup {i} ELSE cycle.visited,
              fresh |-> cycle.fresh \/ fresh,
              sent |-> cycle.sent \/ sent,
              changed |-> cycle.changed \/ last_activities' # last_activities,
              expected |-> IF pc' \in {"resolve", "sleep"} THEN 0
                           ELSE IF pc = "fetch" THEN Cardinality(NewKeys(activities'))
                           ELSE cycle.expected,
              count |-> IF pc' \in {"resolve", "sleep"} \/ pc = "fetch" THEN 0
                        ELSE IF sent THEN cycle.count + 1
                        ELSE cycle.count]

\* the locals of an iteration: each is assigned in the next iteration before
\* it is read, so the end of an iteration resets them
ClearLocals ==
    /\ channel_id' = None
    /\ channel_info' = NoInfo
    /\ activities' = <<>>
    /\ message' = NoMessage
    /\ response' = NoResponse

\* faulty variant: the sleep follows every channel
NextChannelSleepsEach ==
    /\ pc' = "sleep"
    /\ i' = i
    /\ ClearLocals

\* the outer for loop moves to the next channel, or the cycle goes to its sleep
NextChannel ==
    /\ IF i < Len(channels_to_monitor)
       THEN pc' = "resolve" /\ i' = i + 1
       ELSE pc' = "sleep" /\ i' = i
    /\ ClearLocals

\* faulty variant: the try statement encloses the for loop, so an exception
\* ends the pass over the channels
ExceptAbortsCycle ==
    /\ pc' = "sleep"
    /\ i' = i
    /\ ClearLocals

\* `except Exception as e: print(...)` inside the for loop
ExceptHandler == NextChannel

\* dictionary assignment d[key] = value
Put(d, key, value) ==
    [x \in DOMAIN d \cup {key} |-> IF x = key THEN value ELSE d[x]]

\* monitor = YouTubeMonitor(); last_activities = {}
Construct ==
    /\ pc = "start"
    /\ pc' = "resolve"
    /\ UNCHANGED <<i, locals, channel_cache, last_activities, health,
                   notifications, response, last, cycle>>

\* build() raises: the exception leaves monitor_channels and ends the thread
ConstructRaise ==
    /\ pc = "start"
    /\ pc' = "stopped"
    /\ UNCHANGED <<i, locals, channel_cache, last_activities, health,
                   notifications, response, last, cycle>>

\* lines 139-150 with a channel identifier as the result
Resolve(cid) ==
    /\ pc = "resolve"
    /\ IF IsHandle(channel) THEN cid # channel ELSE cid = channel
    /\ channel_id' = cid
    /\ pc' = "info"
    /\ UNCHANGED <<i, channel_info, activities, message, channel_cache,
                   last_activities, health, notifications, response>>
    /\ Called(IF IsHandle(channel) THEN "search" ELSE "none", "ok")
    /\ Log(TRUE, FALSE, FALSE)

\* faulty variant: without the `continue`, the handle is used as the identifier
ResolveEmptyFallsThrough ==
    /\ pc = "resolve"
    /\ IsHandle(channel)
    /\ channel_id' = channel
    /\ pc' = "info"
    /\ UNCHANGED <<i, channel_info, activities, message, channel_cache,
                   last_activities, health, notifications, response>>
    /\ Called("search", "empty")
    /\ Log(TRUE, FALSE, FALSE)

\* the search has no items: `continue`
ResolveEmpty ==
    /\ pc = "resolve"
    /\ IsHandle(channel)
    /\ NextChannel
    /\ UNCHANGED <<channel_cache, last_activities, health, notifications>>
    /\ Called("search", "empty")
    /\ Log(TRUE, FALSE, FALSE)

\* the search call raises
ResolveRaise ==
    /\ pc = "resolve"
    /\ IsHandle(channel)
    /\ ExceptHandler
    /\ UNCHANGED <<channel_cache, last_activities, health, notifications>>
    /\ Called("search", "raise")
    /\ Log(TRUE, FALSE, FALSE)

\* faulty variant: the cache is never consulted
NeverCached(cid) == FALSE

\* `if channel_id in self.channel_cache`
IsCached(cid) == cid \in DOMAIN channel_cache

\* get_channel_info: the entry of the cache is returned, no lookup is made
InfoCached ==
    /\ pc = "info"
    /\ IsCached(channel_id)
    /\ channel_info' = channel_cache[channel_id]
    /\ pc' = "fetch"
    /\ UNCHANGED <<i, channel_id, activities, message, channel_cache,
                   last_activities, health, notifications, response>>
    /\ Called("none", "ok")
    /\ Log(FALSE, FALSE, FALSE)

\* get_channel_info: the lookup returns a snippet; its language is detected,
\* the entry is cached and returned
InfoLookup(title, detected) ==
    /\ pc = "info"
    /\ ~IsCached(channel_id)
    /\ LET info == [title |-> title, lang |-> detect_language(detected)]
       IN  /\ channel_cache' = Put(channel_cache, channel_id, info)
           /\ channel_info' = channel_cache'[channel_id]
    /\ pc' = "fetch"
    /\ UNCHANGED <<i, channel_id, activities, message,
                   last_activities, health, notifications, response>>
    /\ Called("channels", "ok")
    /\ Log(FALSE, FALSE, FALSE)

\* faulty variant: the placeholder is cached like a looked up entry
InfoUnknownCached ==
    /\ pc = "info"
    /\ ~IsCached(channel_id)
    /\ channel_cache' = Put(channel_cache, channel_id, UnknownChannel)
    /\ channel_info' = channel_cache'[channel_id]
    /\ pc' = "fetch"
    /\ UNCHANGED <<i, channel_id, activities, message,
                   last_activities, health, notifications, response>>
    /\ Called("channels", "empty")
    /\ Log(FALSE, FALSE, FALSE)

\* get_channel_info: the lookup has no items
InfoUnknown ==
    /\ pc = "info"
    /\ ~IsCached(channel_id)
    /\ channel_info' = UnknownChannel
    /\ pc' = "fetch"
    /\ UNCHANGED <<i, channel_id, activities, message, channel_cache,
                   last_activities, health, notifications, response>>
    /\ Called("channels", "empty")
    /\ Log(FALSE, FALSE, FALSE)

\* get_channel_info: the lookup raises, which monitor_channels catches
InfoRaise ==
    /\ pc = "info"
    /\ ~IsCached(channel_id)
    /\ ExceptHandler
    /\ UNCHANGED <<channel_cache, last_activities, health, notifications>>
    /\ Called("channels", "raise")
    /\ Log(FALSE, FALSE, FALSE)

\* history: some activity of the list has a dedup key that is not in the tracker
HasFresh(list) ==
    \E n \in 1..Len(list) :
        ActivityKey(channel_id, list[n].video_id) \notin DOMAIN last_activities

\* faulty variant: get_activities has no try block, a failed request raises
FetchPropagates(result) ==
    /\ pc = "fetch"
    /\ IF result.raised
       THEN ExceptHandler
       ELSE /\ activities' = get_activities(result)
            /\ pc' = "activity"
            /\ response' = [valid |-> TRUE, items |-> result.items]
            /\ UNCHANGED <<i, channel_id, channel_info, message>>
    /\ UNCHANGED <<channel_cache, last_activities, health, notifications>>
    /\ Called("activities", IF result.raised THEN "failed" ELSE "ok")
    /\ Log(FALSE, HasFresh(get_activities(result)), FALSE)

\* activities = monitor.get_activities(channel_id)
Fetch(result) ==
    /\ pc = "fetch"
    /\ activities' = get_activities(result)
    /\ pc' = "activity"
    /\ response' = [valid |-> TRUE, items |-> result.items]
    /\ UNCHANGED <<i, channel_id, channel_info, message, channel_cache,
                   last_activities, health, notifications>>
    /\ Called("activities", IF result.raised THEN "failed" ELSE "ok")
    /\ Log(FALSE, HasFresh(get_activities(result)), FALSE)

\* the activity of the inner for loop and its dedup key
activity == Head(activities)
activity_key == ActivityKey(channel_id, activity.video_id)

\* faulty variant: the tracker is not consulted
IsNewAlways(key) == TRUE

\* `if activity_key not in last_activities`
IsNew(key) == key \notin DOMAIN last_activities

\* the inner for loop is exhausted: the try block ends without an exception
ActivitiesDone ==
    /\ pc = "activity"
    /\ activities = <<>>
    /\ NextChannel
    /\ UNCHANGED <<channel_cache, last_activities, health, notifications>>
    /\ Called("none", "ok")
    /\ Log(FALSE, FALSE, FALSE)

\* the key is in last_activities: next activity
ActivitySeen ==
    /\ pc = "activity"
    /\ activities # <<>>
    /\ ~IsNew(activity_key)
    /\ activities' = Tail(activities)
    /\ response' = NoResponse
    /\ UNCHANGED <<pc, i, channel_id, channel_info, message,
                   channel_cache, last_activities, health, notifications>>
    /\ Called("none", "ok")
    /\ Log(FALSE, FALSE, FALSE)

\* the key is new: message = TelegramNotifier.format_message(activity, channel_info)
Format ==
    /\ pc = "activity"
    /\ activities # <<>>
    /\ IsNew(activity_key)
    /\ ~TimeRaises(activity.time)
    /\ message' = format_message(activity, channel_info)
    /\ pc' = "send"
    /\ response' = NoResponse
    /\ UNCHANGED <<i, channel_id, channel_info, activities,
                   channel_cache, last_activities, health, notifications>>
    /\ Called("none", "ok")
    /\ Log(FALSE, FALSE, FALSE)

\* the key is new and format_message raises
FormatRaise ==
    /\ pc = "activity"
    /\ activities # <<>>
    /\ IsNew(activity_key)
    /\ TimeRaises(activity.time)
    /\ ExceptHandler
    /\ UNCHANGED <<channel_cache, last_activities, health, notifications>>
    /\ Called("none", "raise")
    /\ Log(FALSE, FALSE, FALSE)

\* history: the notifications delivered for a key
Delivered(key) ==
    IF key \in DOMAIN notifications THEN notifications[key] ELSE <<>>

\* faulty variant: the entry is stored under the media id alone
RecordByVideoId(tracker, key, time) == Put(tracker, PyStr(activity.video_id), time)

\* faulty variant: the tracker keeps the latest key only
RecordReplacing(tracker, key, time) == [x \in {key} |-> time]

\* last_activities[activity_key] = activity['time']
Record(tracker, key, time) == Put(tracker, key, time)

\* faulty variant: line 161 is missing, the key is not recorded
SendNoRecord ==
    /\ pc = "send"
    /\ Len(Delivered(activity_key)) < MaxNotifications
    /\ notifications' =
         Put(notifications, activity_key,
             Append(Delivered(activity_key),
                    [channel_id |-> channel_id, video_id |-> activity.video_id,
                     type |-> activity.type]))
    /\ activities' = Tail(activities)
    /\ pc' = "activity"
    /\ message' = NoMessage
    /\ UNCHANGED <<i, channel_id, channel_info, channel_cache, health, response,
                   last_activities>>
    /\ Called("sendMessage", "ok")
    /\ Log(FALSE, FALSE, TRUE)

\* send_notification returns (the status of the answer is not looked at);
\* the key is recorded; next activity
Send ==
    /\ pc = "send"
    /\ Len(Delivered(activity_key)) < MaxNotifications
    /\ notifications' =
         Put(notifications, activity_key,
             Append(Delivered(activity_key),
                    [channel_id |-> channel_id, video_id |-> activity.video_id,
                     type |-> activity.type]))
    /\ last_activities' = Record(last_activities, activity_key, activity.time)
    /\ activities' = Tail(activities)
    /\ pc' = "activity"
    /\ message' = NoMessage
    /\ UNCHANGED <<i, channel_id, channel_info, channel_cache, health, response>>
    /\ Called("sendMessage", "ok")
    /\ Log(FALSE, FALSE, TRUE)

\* faulty variant: the exception of one activity is caught inside the inner
\* for loop, which goes on with the next activity
SendRaiseContinues ==
    /\ pc = "send"
    /\ activities' = Tail(activities)
    /\ pc' = "activity"
    /\ message' = NoMessage
    /\ UNCHANGED <<i, channel_id, channel_info, response>>
    /\ UNCHANGED <<channel_cache, last_activities, health, notifications>>
    /\ Called("sendMessage", "raise")
    /\ Log(FALSE, FALSE, FALSE)

\* requests.post raises inside send_notification: nothing is recorded, neither
\* as a notification nor in the tracker
SendRaise ==
    /\ pc = "send"
    /\ ExceptHandler
    /\ UNCHANGED <<channel_cache, last_activities, health, notifications>>
    /\ Called("sendMessage", "raise")
    /\ Log(FALSE, FALSE, FALSE)

\* faulty variant: the sleep ends the thread
SleepEndsThread ==
    /\ pc = "sleep"
    /\ pc' = "stopped"
    /\ i' = 1
    /\ cycle' = NoCycle
    /\ Called("sleep", "ok")
    /\ UNCHANGED <<locals, channel_cache, last_activities, health,
                   notifications, response>>

\* time.sleep(CHECK_INTERVAL) returns and the while loop starts the next cycle
Sleep ==
    /\ pc = "sleep"
    /\ pc' = "resolve"
    /\ i' = 1
    /\ cycle' = NoCycle
    /\ Called("sleep", "ok")
    /\ UNCHANGED <<locals, channel_cache, last_activities, health,
                   notifications, response>>

\* one step of the poll thread, the search returning identifiers of cids, the
\* activities call returning responses of the given set and langdetect.detect
\* returning codes of langs
PollOf(cids, responses, langs) ==
    \/ Construct
    \/ ConstructRaise
    \/ \E cid \in cids \cup {channel} : Resolve(cid)
    \/ ResolveEmpty
    \/ ResolveRaise
    \/ InfoCached
    \/ \E title \in Titles, detected \in langs \cup {"raise"} :
          InfoLookup(title, detected)
    \/ InfoUnknown
    \/ InfoRaise
    \/ \E items \in responses : Fetch(Returned(items))
    \/ Fetch(Raised)
    \/ ActivitiesDone
    \/ ActivitySeen
    \/ Format
    \/ FormatRaise
    \/ Send
    \/ SendRaise
    \/ Sleep

\* one step of the poll thread with the detected codes of DetectedLangs
PollWith(cids, responses) == PollOf(cids, responses, DetectedLangs)

(***************************************************************************)
(* The health server: one request is received and answered.               *)
(***************************************************************************)
Health(method, path) ==
    /\ request' = [method |-> method, path |-> path]
    /\ reply' = HealthHandler(method, path)
    /\ UNCHANGED <<pc, i, locals, channel_cache, last_activities,
                   notifications, response, last, cycle>>

\* the poll thread with every input of the model; the health server is idle
Next == PollWith(ChannelIds, Responses)

Spec == Init /\ [][Next]_vars

\* the poll thread and the health server; the poll thread's inputs are one
\* channel identifier and the responses of at most one item
HealthNext ==
    \/ PollWith({"UCa"}, SeqsUpTo(Items, 1))
    \/ \E method \in Methods, path \in Paths : Health(method, path)

HealthSpec == Init /\ [][HealthNext]_vars

\* the poll thread with channels of every kind of language: codes with a
\* template set ('es', 'ru', and 'en' when the detection raises) and a code
\* without one; one channel identifier and responses of at most one item
LangNext == PollOf({"UCa"}, SeqsUpTo(Items, 1), {"es", "ru", "de"})

LangSpec == Init /\ [][LangNext]_vars

\* the poll thread with responses of at most one item, and the thread always
\* going on: the statement it is at is carried out, every call it waits for
\* returns or raises, the sleep returns
FairNext == PollOf(ChannelIds, SeqsUpTo(Items, 1), DetectedLangs)

FairSpec == Init /\ [][FairNext]_vars /\ WF_vars(FairNext)

(***************************************************************************)
(* Properties.                                                             *)
(***************************************************************************)
N == Len(channels_to_monitor)

\* a step of the poll thread
Stepped == <<pc, i, activities>>' # <<pc, i, activities>>

\* the outer for loop goes on with the channel after the current one, or,
\* after the last one, to the sleep
MovesOn == IF i < N THEN pc' = "resolve" /\ i' = i + 1 ELSE pc' = "sleep"

\* every notification delivered so far
AllDelivered ==
    UNION { { notifications[key][n] : n \in 1..Len(notifications[key]) } :
            key \in DOMAIN notifications }

\* C1: no dedup key has more than one notification delivered for it, whatever
\* the fetcher returned and whichever calls failed (a notification is
\* delivered when send_notification returns)
AtMostOncePerKey ==
    \A key \in DOMAIN notifications : Len(notifications[key]) <= 1

\* an activity whose key was notified is fetched again and is about to be checked
WitnessAtMostOncePerKey ==
    /\ pc = "activity"
    /\ activities # <<>>
    /\ activity_key \in DOMAIN notifications
    /\ Len(notifications[activity_key]) = 1

\* C2: a cycle in which every fetched activity had its dedup key in the
\* tracker already delivers no notification and leaves the tracker unchanged
IdempotentCycle ==
    ~cycle.fresh => (~cycle.sent /\ ~cycle.changed)

\* the last channel of a cycle is at a fetched activity, and no activity
\* fetched in the cycle had a new key
WitnessIdempotentCycle ==
    /\ pc = "activity"
    /\ i = N
    /\ activities # <<>>
    /\ ~cycle.fresh
    /\ ~cycle.sent
    /\ last_activities # <<>>

\* C3: an activity is never suppressed by the notification of an activity with
\* the same media id under another channel identifier
SameMediaOtherChannelNotSuppressed ==
    (pc = "activity" /\ activities # <<>>) =>
        \A key \in DOMAIN notifications :
            \A n \in 1..Len(notifications[key]) :
                ( /\ notifications[key][n].video_id = activity.video_id
                  /\ notifications[key][n].channel_id # channel_id )
                => ( key # activity_key /\ key \in DOMAIN last_activities )

\* the same media id was notified under two channel identifiers
WitnessSameMediaOtherChannel ==
    \E k1 \in DOMAIN notifications, k2 \in DOMAIN notifications :
        /\ Len(notifications[k1]) > 0
        /\ Len(notifications[k2]) > 0
        /\ notifications[k1][1].video_id = notifications[k2][1].video_id
        /\ notifications[k1][1].channel_id # notifications[k2][1].channel_id

\* a step in which the processing of the current channel raised
RaiseStep == Stepped /\ last'.result = "raise"

\* C4: when the processing of a channel raises, at any step, the loop goes on
\* with the next channel, and the sleep is reached with every channel visited
ChannelIsolation ==
    /\ [](pc = "sleep" => cycle.visited = 1..N)
    /\ [][RaiseStep => MovesOn]_vars

\* the first channel raised and the loop is at the second
WitnessChannelIsolation ==
    /\ pc = "resolve"
    /\ i = 2
    /\ last.result = "raise"

\* a step in which the search returned nothing or raised
SkipStep == Stepped /\ last'.call = "search" /\ last'.result \in {"empty", "raise"}

\* C5: a search with no result, or one that raises, skips the channel: the
\* loop goes on with the next channel, the cache, the tracker and the
\* notifications are as before, the later steps run only with a resolved
\* identifier, and every visit of a handle starts with the search
ResolveFailureSkips ==
    /\ [](pc \in {"info", "fetch", "activity", "send"} => channel_id \in ChannelIds)
    /\ [][SkipStep =>
            /\ MovesOn
            /\ channel_id' = None
            /\ UNCHANGED <<channel_cache, last_activities, notifications>>]_vars
    /\ [][(pc = "resolve" /\ IsHandle(channel) /\ Stepped) => last'.call = "search"]_vars

\* the first channel was skipped with a cache and a tracker that are not empty
WitnessResolveFailureSkips ==
    /\ pc = "resolve"
    /\ i = 2
    /\ last.call = "search"
    /\ last.result \in {"empty", "raise"}
    /\ channel_cache # <<>>
    /\ last_activities # <<>>

\* C6: an entry of the channel info cache is never changed or removed, and
\* get_channel_info returns the cached entry without a lookup
CacheEntryPermanent ==
    /\ [][\A c \in DOMAIN channel_cache :
             c \in DOMAIN channel_cache' /\ channel_cache'[c] = channel_cache[c]]_vars
    /\ [][(pc = "info" /\ channel_id \in DOMAIN channel_cache /\ Stepped) =>
             /\ pc' = "fetch"
             /\ channel_info' = channel_cache[channel_id]
             /\ last'.call = "none"]_vars

\* get_channel_info has returned an entry of the cache without a lookup
WitnessCacheEntryPermanent ==
    /\ pc = "fetch"
    /\ last.call = "none"
    /\ channel_id \in DOMAIN channel_cache
    /\ channel_info = channel_cache[channel_id]

\* the activities request of the latest step failed
FetchFailed == last.call = "activities" /\ last.result = "failed"

\* C7: a failed activities request makes get_activities return the empty
\* list without raising; the channel then ends without a notification, a
\* retry or a change of the tracker, and every visit that reaches the fetch
\* issues the request
FetchFailureIsEmpty ==
    /\ [](FetchFailed => (pc = "activity" /\ activities = <<>>))
    /\ [][(FetchFailed /\ Stepped) =>
             /\ MovesOn
             /\ last'.call = "none"
             /\ UNCHANGED <<last_activities, notifications>>]_vars
    /\ [][(pc = "fetch" /\ Stepped) =>
             /\ last'.call = "activities"
             /\ UNCHANGED <<last_activities, notifications>>]_vars

\* the request failed while the tracker holds keys
WitnessFetchFailureIsEmpty ==
    /\ FetchFailed
    /\ pc = "activity"
    /\ last_activities # <<>>

\* the positions of the upload and live items of a response, and the n-th of them
KeptPositions(items) ==
    { n \in 1..Len(items) : items[n].type = "upload" \/ items[n].type = "live" }
NthKept(items, m) ==
    CHOOSE n \in KeptPositions(items) :
        Cardinality({ x \in KeptPositions(items) : x <= n }) = m

\* C8: get_activities returns the upload and live items of the response, all
\* of them and in their order; every notification and every key of the
\* tracker is for an upload or a live activity
OnlyUploadAndLive ==
    /\ response.valid =>
          /\ Len(activities) = Cardinality(KeptPositions(response.items))
          /\ \A m \in 1..Len(activities) :
                /\ activities[m].type = response.items[NthKept(response.items, m)].type
                /\ activities[m].title = response.items[NthKept(response.items, m)].title
                /\ activities[m].time =
                      response.items[NthKept(response.items, m)].publishedAt
    /\ \A m \in 1..Len(activities) : activities[m].type \in {"upload", "live"}
    /\ \A d \in AllDelivered : d.type \in {"upload", "live"}
    /\ DOMAIN last_activities = DOMAIN notifications

\* a response that mixes a kept and a discarded item has been filtered
WitnessOnlyUploadAndLive ==
    /\ response.valid
    /\ Len(response.items) = 2
    /\ response.items[1].type = "like"
    /\ response.items[2].type = "live"
    /\ Len(activities) = 1
    /\ AllDelivered # {}

TemplateFallback ==
    /\ [](pc = "send" =>
            /\ channel_info.lang \in {"en", "es", "ru"} =>
                  message.template[1] = channel_info.lang
            /\ channel_info.lang \notin {"en", "es", "ru"} =>
                  message.template[1] = "en")
    /\ [][(pc = "activity" /\ activities # <<>> /\ Stepped
             /\ activity_key \notin DOMAIN last_activities) =>
             IF activity.time = GoodTime
             THEN pc' = "send" /\ last'.result = "ok"
             ELSE last'.result = "raise"]_vars

\* a message for a channel with a code that has no template set
WitnessTemplateFallback ==
    /\ pc = "send"
    /\ channel_info.lang = "de"
    /\ message.template = <<"en", "upload">>

\* C12: when format_message or send_notification raises for an activity, the
\* activities after it in the fetched list are left unprocessed, its key is
\* not recorded, the keys recorded before stay as they are, and the loop goes
\* on with the next channel; fetched activities exist only inside the inner loop
PerActivityGap ==
    /\ [](activities # <<>> => pc \in {"activity", "send"})
    /\ [][(RaiseStep /\ pc \in {"activity", "send"}) =>
             /\ MovesOn
             /\ activities' = <<>>
             /\ last'.dropped = Len(activities) - 1
             /\ activity_key \notin DOMAIN last_activities'
             /\ UNCHANGED <<last_activities, notifications>>]_vars

\* the send of the first of two fetched activities raised while the tracker
\* holds keys, and the loop is at the second channel
WitnessPerActivityGap ==
    /\ pc = "resolve"
    /\ i = 2
    /\ last.call = "sendMessage"
    /\ last.result = "raise"
    /\ last.dropped = 1
    /\ last_activities # <<>>

\* C13: the tracker holds exactly the keys for which a send has returned, one
\* delivered notification for each; an entry is never removed or changed; and
\* the tracker changes only in the step in which send_notification returns, by
\* the key of the activity sent
RecordedOnlyAfterSend ==
    /\ [](/\ DOMAIN last_activities = DOMAIN notifications
          /\ \A key \in DOMAIN last_activities : Len(notifications[key]) = 1)
    /\ [][\A key \in DOMAIN last_activities :
             /\ key \in DOMAIN last_activities'
             /\ last_activities'[key] = last_activities[key]]_vars
    /\ [][last_activities' # last_activities =>
             /\ pc = "send"
             /\ last'.call = "sendMessage"
             /\ last'.result = "ok"
             /\ activity_key \notin DOMAIN last_activities
             /\ DOMAIN last_activities' = DOMAIN last_activities \cup {activity_key}
             /\ Len(notifications'[activity_key]) = 1]_vars

\* a send has just returned and the tracker holds an earlier key as well
WitnessRecordedOnlyAfterSend ==
    /\ last.call = "sendMessage"
    /\ last.result = "ok"
    /\ \E k1 \in DOMAIN last_activities, k2 \in DOMAIN last_activities : k1 # k2

\* C14: the channels are processed one at a time in list order and the
\* activities of a channel one at a time in fetched order; the locals of a
\* channel are gone when the next channel starts; the sleep is entered only
\* from the last channel, with every channel visited, and one sleep call
\* starts the next cycle at the first channel
SequentialProcessing ==
    /\ [](/\ pc = "resolve" => cycle.visited = 1..(i - 1)
          /\ pc \in {"info", "fetch", "activity", "send"} => cycle.visited = 1..i
          /\ pc = "sleep" => (i = N /\ cycle.visited = 1..N))
    /\ [][(Stepped /\ pc \in {"resolve", "info", "fetch", "activity", "send"}) =>
             \/ i' = i /\ pc' \notin {"resolve", "sleep"}
             \/ /\ MovesOn
                /\ channel_id' = None
                /\ channel_info' = NoInfo
                /\ activities' = <<>>]_vars
    /\ [][(pc \in {"activity", "send"} /\ activities' # activities) =>
             \/ activities' = Tail(activities)
             \/ activities' = <<>> /\ MovesOn]_vars
    /\ [][notifications' # notifications =>
             /\ activities # <<>>
             /\ notifications'[activity_key][Len(notifications'[activity_key])] =
                  [channel_id |-> channel_id, video_id |-> activity.video_id,
                   type |-> activity.type]
             /\ activities' = Tail(activities)]_vars
    /\ [][Stepped => (last'.call = "sleep" <=> pc = "sleep")]_vars
    /\ [][(Stepped /\ pc = "sleep") =>
             (pc' = "resolve" /\ i' = 1 /\ cycle'.visited = {})]_vars

\* the sleep after a cycle in which a notification was sent
WitnessSequentialProcessing ==
    /\ pc = "sleep"
    /\ i = N
    /\ cycle.visited = 1..N
    /\ cycle.sent

\* C17: a lookup without items returns the placeholder and leaves the cache
\* as it is, a lookup that raises leaves the cache as it is and ends the
\* channel, the cache changes only by a lookup that returned a snippet, and a
\* channel whose identifier is not in the cache gets the lookup at every visit
FailedLookupNotCached ==
    /\ [](\A c \in DOMAIN channel_cache : channel_cache[c].title \in Titles)
    /\ [][(Stepped /\ last'.call = "channels" /\ last'.result = "empty") =>
             /\ channel_info' = UnknownChannel
             /\ pc' = "fetch"
             /\ channel_cache' = channel_cache]_vars
    /\ [][(Stepped /\ last'.call = "channels" /\ last'.result = "raise") =>
             /\ MovesOn
             /\ channel_cache' = channel_cache]_vars
    /\ [][channel_cache' # channel_cache =>
             (last'.call = "channels" /\ last'.result = "ok")]_vars
    /\ [][(pc = "info" /\ channel_id \notin DOMAIN channel_cache /\ Stepped) =>
             last'.call = "channels"]_vars

\* a channel that was notified about at an earlier visit is not in the cache,
\* and its lookup was made again and returned no items
WitnessFailedLookupNotCached ==
    /\ pc = "fetch"
    /\ last.call = "channels"
    /\ last.result = "empty"
    /\ channel_info = UnknownChannel
    /\ channel_id \notin DOMAIN channel_cache
    /\ \E sent \in AllDelivered : sent.channel_id = channel_id

\* C18: while a channel's fetched activities are processed, the notifications
\* delivered so far plus the distinct new keys still ahead equal the number of
\* distinct keys of the fetched activities that were not in the tracker at the
\* fetch; so when the list is exhausted without an exception the two numbers
\* agree. An activity with a new key is the one notified, and an activity
\* whose key is in the tracker, by an earlier activity of the same fetch as
\* well, is passed over without a notification
OneNotificationPerNewKey ==
    /\ [](pc \in {"activity", "send"} =>
            cycle.count + Cardinality(NewKeys(activities)) = cycle.expected)
    /\ [](pc = "activity" /\ activities = <<>> => cycle.count = cycle.expected)
    /\ [][(pc = "activity" /\ activities # <<>> /\ Stepped
             /\ activity_key \in DOMAIN last_activities) =>
             /\ activities' = Tail(activities)
             /\ pc' = "activity"
             /\ notifications' = notifications
             /\ cycle'.count = cycle.count]_vars
    /\ [][(pc = "send" /\ Stepped /\ last'.result = "ok") =>
             /\ cycle'.count = cycle.count + 1
             /\ notifications'[activity_key] =
                  <<[channel_id |-> channel_id, video_id |-> activity.video_id,
                     type |-> activity.type]>>]_vars

\* two activities without a media id were fetched into an empty tracker: the
\* first was notified, the second was passed over, and the list is exhausted
WitnessOneNotificationPerNewKey ==
    /\ pc = "activity"
    /\ activities = <<>>
    /\ last.call = "none"
    /\ cycle.expected = 1
    /\ cycle.count = 1
    /\ DOMAIN last_activities = {ActivityKey(channel_id, None)}

\* C19: the dedup key is injective over (channel identifier, media id) pairs:
\* an activity being checked never has the key of a notified activity with
\* another channel identifier or another media id
KeyInjective ==
    (pc = "activity" /\ activities # <<>>) =>
        \A sent \in AllDelivered :
            (sent.channel_id # channel_id \/ sent.video_id # activity.video_id)
            => ActivityKey(sent.channel_id, sent.video_id) # activity_key

\* C15: once the loop is entered the thread never stops; whatever the calls
\* do, every cycle reaches its sleep, the sleep is followed by the first
\* channel of a new cycle, and every channel of the list is visited in the
\* cycle; so every channel is processed again and again
NoTerminalState ==
    /\ [][pc' = "stopped" => pc = "start"]_vars
    /\ (pc \notin {"start", "stopped"}) ~> (pc = "sleep")
    /\ (pc = "sleep") ~> (pc = "resolve" /\ i = 1 /\ cycle.visited = {})
    /\ \A n \in 1..N :
          /\ (pc = "resolve" /\ i = 1) ~> (n \in cycle.visited)
          /\ []<>(pc \in {"start", "stopped"} \/ (pc = "resolve" /\ i = n))

\* the sleep has returned and a new cycle is at its first channel, after
\* cycles with notifications
WitnessNoTerminalState ==
    /\ pc = "resolve"
    /\ i = 1
    /\ last.call = "sleep"
    /\ last_activities # <<>>

\* the upload and live activities the fetcher can return
RetainedActivities == { Activity(item) : item \in { x \in Items : IsRetained(x.type) } }

\* C16: if the loop is entered and from some point on the first configured
\* channel resolves to an identifier, every fetch for that identifier returns an upload or live
\* activity, and every call made for the channel succeeds, then a
\* notification for that activity of that channel is eventually delivered
EventuallyRelayed ==
    \A cid \in ChannelIds, a \in RetainedActivities :
        ( /\ <>(pc = "resolve")
          /\ <>[][(pc = "resolve" /\ i = 1 /\ Stepped) => channel_id' = cid]_vars
          /\ <>[][(pc = "fetch" /\ channel_id = cid /\ Stepped) =>
                    activities' = <<a>>]_vars
          /\ <>[][(i = 1 /\ pc # "sleep" /\ Stepped) => last'.result = "ok"]_vars )
        => <>(\E sent \in AllDelivered :
                 sent.channel_id = cid /\ sent.video_id = a.video_id)

====
